---- MODULE Spec2Model ----
(***************************************************************************)
(* A model of ImageProcessor (智能高速缩图V5.2.2算法更新.py): the directory   *)
(* scan and grouping, the output-path mapping, the standard-image pipeline *)
(* with its retries, the polling scheduler of run(), the sequential RAW    *)
(* stage, cancellation and the end-of-run report.                          *)
(*                                                                         *)
(* Strings (paths, file names) are sequences of tokens.  A token is a      *)
(* piece of text that the program's string operations never split: a stem  *)
(* ("a"), an extension with its dot (".png"), a system-file prefix ("_"),  *)
(* or the separator "/".                                                   *)
(***************************************************************************)
EXTENDS Integers, Sequences, FiniteSets, TLC

\* ---------------------------------------------------------------- constants

RAW_EXTENSIONS == {".cr2", ".cr3", ".nef", ".arw", ".dng", ".raw", ".raf", ".rw2", ".srw", ".3fr"}
IMAGE_EXTENSIONS == {".jpg", ".jpeg", ".png", ".heic", ".bmp", ".gif", ".tiff"}
JPG_THREAD_MULTIPLIER == 4
JPG_RETRY_COUNT == 2
THREAD_ADJUST_MIN_INTERVAL == 5
max_jpg_threads == 16
min_jpg_threads == 4
cpu_high_threshold == 85
cpu_low_threshold == 70
cpu_check_interval == 2
\* Line 276: the seconds psutil.cpu_percent(interval=1) measures over.
CpuSampleInterval == 1
\* Line 279: the utilization substituted when the sampling fails.
DefaultCpuUsage == 50
\* Lines 293 and 306: the step of an adjustment.
WorkerStepSize == 2
MinThreads == 4
MinQuality == 85
MaxQuality == 100
HighQualityRaw == 95

\* ------------------------------------------------------------------- bounds

\* Files in a small input tree.
MaxFiles == 2
\* Files of the large input tree beyond the in-flight limit of the scheduler.
Overflow == 1
\* Attempts the codec may fail in one run.
MaxFaults == 3
\* Runs on the same input/output pair.
MaxRuns == 2
\* Physical CPU cores reported by the host.
MaxCores == 1
\* Width and height of an image given to the resize step (beside 50 and 101).
MaxDim == 8
\* The max_side setting given to the resize step (beside 50).
MaxSide == 6

\* The quality arguments go this far below the least and above the greatest
\* effective quality (beside -1, 0, 10 and 500).
QualitySpan == 12
\* Worker threads that run _jpg_task_wrapper at the same time.
MaxWrappers == 3
\* Jobs handed to the adjuster's executor and task queue.
MaxJobs == 2
\* Seconds of the adjuster's clock that are followed.
MaxTime == 12

\* max(a, b)
Max(a, b) == IF a >= b THEN a ELSE b

\* min(a, b)
Min(a, b) == IF a <= b THEN a ELSE b

\* ------------------------------------------------------------------ strings

SEP == "/"

\* The tokens that are extensions (a dot and letters).
ExtTokens == IMAGE_EXTENSIONS \cup RAW_EXTENSIONS \cup {".JPG", ".txt"}

\* str.lower() on one token.
LowerTok(t) ==
    CASE t = ".JPG" -> ".jpg"
      [] t = "A" -> "a"
      [] OTHER -> t

\* str.lower()
Lower(s) == [i \in DOMAIN s |-> LowerTok(s[i])]

\* The index of the last separator of s, 0 when there is none.
LastSep(s) ==
    LET I == {i \in DOMAIN s : s[i] = SEP}
    IN  IF I = {} THEN 0 ELSE CHOOSE i \in I : \A j \in I : j <= i

\* os.path.basename
Basename(s) == SubSeq(s, LastSep(s) + 1, Len(s))

\* os.path.dirname
Dirname(s) == SubSeq(s, 1, LastSep(s) - 1)

\* os.path.splitext(s)[1]: the text from the last dot of the last component,
\* empty when that component has no dot after its first character.
SplitExt(s) ==
    LET b == Basename(s)
    IN  IF Len(b) >= 2 /\ b[Len(b)] \in ExtTokens THEN <<b[Len(b)]>> ELSE <<>>

\* os.path.splitext(s)[0]
SplitStem(s) == SubSeq(s, 1, Len(s) - Len(SplitExt(s)))

\* str.replace(old, new) for a one-token old: EVERY occurrence is replaced.
\* (An empty old never reaches the calls modelled here: a selected file has
\* an extension.)
Replace(s, old, new) ==
    IF old = <<>> THEN s
    ELSE [i \in DOMAIN s |-> IF s[i] = old[1] THEN new[1] ELSE s[i]]

\* os.path.join(a, b) for a relative b
Join(a, b) == IF b = <<>> THEN a ELSE a \o <<SEP>> \o b

\* os.path.relpath(p, base) for p under base
RelPath(p, base) == SubSeq(p, Len(base) + 2, Len(p))

\* str.startswith(("._", "_")) on a file name
IsSystemFile(name) == Len(name) >= 1 /\ name[1] \in {"._", "_"}

\* ------------------------------------------------------------- input trees

input_dir == <<"in">>
output_dir == <<"out">>

\* The files a small input tree is drawn from: dir is the directory (relative
\* to the input root, empty for the root itself), name the file name, and
\* sound tells that the codec never fails on the file (it may fail on any
\* attempt at a file that is not sound).
RichUniverse == <<
    [dir |-> <<>>,            name |-> <<"a", ".jpg">>, sound |-> FALSE],
    [dir |-> <<>>,            name |-> <<"a", ".cr2">>, sound |-> FALSE],
    [dir |-> <<>>,            name |-> <<"b", ".png">>, sound |-> FALSE],
    [dir |-> <<>>,            name |-> <<"c", ".cr2">>, sound |-> FALSE],
    [dir |-> <<>>,            name |-> <<"_", "s", ".jpg">>, sound |-> FALSE],
    [dir |-> <<"d">>,         name |-> <<"a", ".png">>, sound |-> FALSE],
    [dir |-> <<"e", ".png">>, name |-> <<"b", ".png">>, sound |-> FALSE],
    [dir |-> <<>>,            name |-> <<"A", ".JPG">>, sound |-> FALSE],
    [dir |-> <<>>,            name |-> <<"n", ".txt">>, sound |-> FALSE],
    [dir |-> <<>>,            name |-> <<"._", "t", ".cr2">>, sound |-> FALSE] >>

\* Sound images in the root directory, for the large input tree.
PlainUniverse == <<
    [dir |-> <<>>, name |-> <<"p1", ".jpg">>, sound |-> TRUE],
    [dir |-> <<>>, name |-> <<"p2", ".jpg">>, sound |-> TRUE],
    [dir |-> <<>>, name |-> <<"p3", ".jpg">>, sound |-> TRUE],
    [dir |-> <<>>, name |-> <<"p4", ".jpg">>, sound |-> TRUE],
    [dir |-> <<>>, name |-> <<"p5", ".jpg">>, sound |-> TRUE],
    [dir |-> <<>>, name |-> <<"p6", ".jpg">>, sound |-> TRUE],
    [dir |-> <<>>, name |-> <<"p7", ".jpg">>, sound |-> TRUE],
    [dir |-> <<>>, name |-> <<"p8", ".jpg">>, sound |-> TRUE],
    [dir |-> <<>>, name |-> <<"p9", ".jpg">>, sound |-> TRUE],
    [dir |-> <<>>, name |-> <<"p10", ".jpg">>, sound |-> TRUE],
    [dir |-> <<>>, name |-> <<"p11", ".jpg">>, sound |-> TRUE] >>

\* Sound images whose names hold an extension twice: x.png.png and x.jpg.png.
DottedUniverse == <<
    [dir |-> <<>>, name |-> <<"x", ".png", ".png">>, sound |-> TRUE],
    [dir |-> <<>>, name |-> <<"x", ".jpg", ".png">>, sound |-> TRUE] >>

Universe == RichUniverse \o PlainUniverse \o DottedUniverse

\* Files are named by their index in Universe; NoFile stands for None.
NoFile == 0
RichFiles == DOMAIN RichUniverse
FileIds == DOMAIN Universe

\* os.path.join(root, file): the absolute path of an input file.
FilePath(f) == Join(Join(input_dir, Universe[f].dir), Universe[f].name)

\* The large tree: more plain images than the scheduler keeps in flight.
LargeTree == (Len(RichUniverse) + 1) .. (Len(RichUniverse) + 2 * MinThreads + Overflow)

\* The tree of the two images with doubled extensions.
DottedTree ==
    (Len(RichUniverse) + Len(PlainUniverse) + 1) .. Len(Universe)

\* The small trees: up to MaxFiles files of any kind.
SmallTrees == {t \in SUBSET RichFiles : Cardinality(t) \in 1 .. MaxFiles}

\* The runs checked: an input tree, the process_raw argument, whether rawpy
\* was imported, and the core count.  A small tree holds fewer images than the
\* least thread count, so min(jpg_threads, len(image_files)) is its image
\* count whatever the cores; without process_raw the rawpy import is never
\* consulted.  The large tree and the tree of doubled extensions hold no RAW
\* file and are run with both set.
Scenarios ==
    {<<t, TRUE, r, 1>> : t \in SmallTrees, r \in BOOLEAN}
        \cup {<<t, FALSE, TRUE, 1>> : t \in SmallTrees}
        \cup {<<LargeTree, TRUE, TRUE, c>> : c \in 1 .. MaxCores}
        \cup {<<DottedTree, TRUE, TRUE, 1>>}

\* ------------------------------------------------------------ output mapper

\* Lines 161-164, 246-249 and 350-352: the output path of an input path.
OutputPath(filepath) == Join(output_dir, RelPath(filepath, input_dir))

ReplaceExt(filepath) ==
    LET output_path == OutputPath(filepath)
    IN  Replace(output_path, SplitExt(output_path), <<".jpg">>)

\* The input paths of the universe.
Paths == {FilePath(f) : f \in FileIds}

\* output_jpg, computed once for each path of the universe.
OutputJpgs == [p \in Paths |-> ReplaceExt(p)]

OutputJpg(filepath) == OutputJpgs[filepath]

\* os.makedirs(p, exist_ok=True): p and every ancestor of p.
MakeDirs(p) ==
    {SubSeq(p, 1, i - 1) : i \in {j \in DOMAIN p : p[j] = SEP}} \cup {p}

\* Lines 163 and 248: the directories that exist after
\* os.makedirs(os.path.dirname(output_path), exist_ok=True), computed once
\* for each path of the universe.
OutputDirs == [p \in Paths |-> MakeDirs(Dirname(OutputPath(p)))]

MakeOutputDirs(filepath) == OutputDirs[filepath]

\* ----------------------------------------------------------------- the state

VARIABLES
    tree,                  \* the files of the input tree
    process_raw,           \* the constructor's process_raw argument
    rawpy,                 \* whether the rawpy module was imported
    jpg_threads,
    process_raw_enabled,
    running,
    error_log,             \* sequence of [name, msg]
    total_files,
    processed_files,
    skip_files,
    skipped_system_files,
    progress_queue,        \* sequence of <<processed, total>>
    pc,                    \* the control thread's position in run()
    run_no,
    to_walk,               \* directories os.walk has not yielded yet
    file_groups,           \* sequence of [key, image, raw], in insertion order
    image_files,
    raw_files,
    it,                    \* the next index of iter(image_files)
    futures,               \* the files of the (future, f) pairs in flight
    status,                \* per file: "none", "pending", "running", "decoding", "ok", "fail"
    retry,                 \* per file: the retry index of process_image
    raw_i,                 \* the index of the RAW loop
    outputs,               \* the files under the output root: [path, by, run]
    out_dirs,              \* the directories under the output root
    outputs_before,        \* the output paths present when the run started
    summary,               \* the logged summary: <<>> or <<[total, ok, skip, errors]>>
    report_written,        \* whether 错误日志.txt was written by this run
    faults,                \* codec failures so far in this run
    resize,                \* the resize steps: [w, h, max_side, size, done, raw_size, raw_done]
    quality,               \* the quality setting: [arg, high_quality_raw, jpg_quality, saved]
    wrappers,              \* per worker thread of _jpg_task_wrapper: [pc, read]
    adjuster               \* the call of _jpg_worker_adjuster, its clock, pools and jobs

vars == <<tree, process_raw, rawpy, jpg_threads, process_raw_enabled, running,
          error_log, total_files, processed_files, skip_files,
          skipped_system_files, progress_queue, pc, run_no, to_walk,
          file_groups, image_files, raw_files, it, futures, status, retry,
          raw_i, outputs, out_dirs, outputs_before, summary, report_written,
          faults, resize, quality, wrappers, adjuster>>

OutputPaths == {o.path : o \in outputs}

\* os.path.exists
Exists(p) == p \in OutputPaths \/ p \in out_dirs

\* Lines 60-61: the thread count from the threads argument (0 for None) and
\* psutil's core count (0 for None).
JpgThreads(threads, cores) ==
    LET cpu_count == IF cores # 0 THEN cores ELSE 4
    IN  IF threads # 0 THEN Max(MinThreads, threads)
        ELSE Max(MinThreads, cpu_count * JPG_THREAD_MULTIPLIER)

\* Lines 44-72: the fields a new ImageProcessor starts with, given the
\* process_raw argument.
Constructed(raw_arg, enabled, run, log, total, processed, skip, skipped) ==
    /\ enabled = raw_arg
    /\ run = TRUE
    /\ log = <<>>
    /\ total = 0
    /\ processed = 0
    /\ skip = 0
    /\ skipped = 0

\* The run state of a processor that has not started run().
Fresh ==
    /\ progress_queue = <<>>
    /\ pc = "start"
    /\ run_no = 1
    /\ to_walk = {}
    /\ file_groups = <<>>
    /\ image_files = <<>>
    /\ raw_files = <<>>
    /\ it = 1
    /\ futures = <<>>
    /\ status = [f \in tree |-> "none"]
    /\ retry = [f \in tree |-> 0]
    /\ raw_i = 1
    /\ outputs = {}
    /\ out_dirs = {}
    /\ outputs_before = {}
    /\ summary = <<>>
    /\ report_written = FALSE
    /\ faults = 0

\* ------------------------------------------------------------- resize step

\* int(round(n / m, 2)) for n, m > 0: n / m rounded to hundredths, then
\* truncated.  (The program computes n / m as w * (max_side / max(w, h)) in
\* floating point; its error is far below the half hundredth that decides the
\* rounding, and no quotient of the sizes checked lies on a half hundredth.)
IntRound2(n, m) == ((2 * 100 * n + m) \div (2 * m)) \div 100

\* Lines 140-141 and 237-238: an odd size is incremented.
ForceEven(x) == IF x % 2 = 0 THEN x ELSE x + 1

\* Lines 133-148: the size process_image resizes a w x h image to.
ImageSize(w, h, max_side) ==
    IF Max(w, h) > max_side
    THEN <<ForceEven(IntRound2(w * max_side, Max(w, h))),
           ForceEven(IntRound2(h * max_side, Max(w, h)))>>
    ELSE <<w, h>>

\* int(n / m) for n, m > 0: the quotient truncated.  (The program computes
\* it as w * (max_side / max(w, h)) in floating point; on the sizes checked
\* the truncated float product equals the integer quotient.)
IntTrunc(n, m) == n \div m

\* Lines 233-242: the size process_raw resizes a w x h image to.
RawSize(w, h, max_side) ==
    IF Max(w, h) > max_side
    THEN <<ForceEven(IntTrunc(w * max_side, Max(w, h))),
           ForceEven(IntTrunc(h * max_side, Max(w, h)))>>
    ELSE <<w, h>>

Dims == (1 .. MaxDim) \cup {50, 101}
Sides == (1 .. MaxSide) \cup {50}

\* The resize step is not followed in the runs of Spec.
NoResize ==
    [w |-> 1, h |-> 1, max_side |-> 1, size |-> <<1, 1>>, done |-> FALSE,
     raw_size |-> <<1, 1>>, raw_done |-> FALSE]

\* Lines 133-146: process_image resizes the decoded image.
ResizeImage ==
    /\ ~resize.done
    /\ resize' = [resize EXCEPT !.size = ImageSize(resize.w, resize.h, resize.max_side),
                                !.done = TRUE]
    /\ UNCHANGED <<adjuster, quality, wrappers, tree, process_raw, rawpy, jpg_threads,
                   process_raw_enabled,
                   running, error_log, total_files, processed_files, skip_files,
                   skipped_system_files, progress_queue, pc, run_no, to_walk,
                   file_groups, image_files, raw_files, it, futures, status,
                   retry, raw_i, outputs, out_dirs, outputs_before, summary,
                   report_written, faults>>

\* Lines 233-242: process_raw resizes the decoded image.
ResizeRaw ==
    /\ ~resize.raw_done
    /\ resize' = [resize EXCEPT !.raw_size = RawSize(resize.w, resize.h, resize.max_side),
                                !.raw_done = TRUE]
    /\ UNCHANGED <<adjuster, quality, wrappers, tree, process_raw, rawpy, jpg_threads,
                   process_raw_enabled,
                   running, error_log, total_files, processed_files, skip_files,
                   skipped_system_files, progress_queue, pc, run_no, to_walk,
                   file_groups, image_files, raw_files, it, futures, status,
                   retry, raw_i, outputs, out_dirs, outputs_before, summary,
                   report_written, faults>>

\* ------------------------------------------------------------ JPEG quality

\* ClampQuality without the lower limit.
ClampQualityAbove(jpg_quality) == Min(jpg_quality, MaxQuality)

\* Line 52: the effective quality of a quality argument.
ClampQuality(jpg_quality) == Max(MinQuality, Min(jpg_quality, MaxQuality))

\* Line 168: the quality process_image saves with.
ImageSaveQuality(jpg_quality) == jpg_quality

\* Line 253: the quality process_raw saves with.
RawSaveQuality(jpg_quality, high_quality_raw) ==
    IF ~high_quality_raw THEN jpg_quality ELSE HighQualityRaw

QualityArgs ==
    ((MinQuality - QualitySpan) .. (MaxQuality + QualitySpan)) \cup {-1, 0, 10, 500}

\* The quality setting is not followed in the runs of Spec.
NoQuality == [arg |-> 0, high_quality_raw |-> FALSE, jpg_quality |-> 0, saved |-> {}]

\* The variables of a run, left alone by the steps on the quality setting and
\* by the resize step.
run_vars == <<tree, process_raw, rawpy, jpg_threads, process_raw_enabled, running,
              error_log, total_files, skip_files, skipped_system_files, pc,
              run_no, to_walk, file_groups, image_files, raw_files, it, futures,
              status, retry, raw_i, outputs, out_dirs, outputs_before, summary,
              report_written, faults>>

\* Lines 44-54: the constructor stores the clamped quality.
ConstructQuality ==
    /\ quality.jpg_quality = 0
    /\ quality' = [quality EXCEPT !.jpg_quality = ClampQuality(quality.arg)]
    /\ UNCHANGED <<adjuster, run_vars, processed_files, progress_queue, resize, wrappers>>

\* Lines 167-181: process_image encodes an output.
SaveImage ==
    /\ quality.jpg_quality # 0
    /\ quality' = [quality EXCEPT !.saved = @ \cup
            {[by |-> "process_image", quality |-> ImageSaveQuality(quality.jpg_quality)]}]
    /\ quality' # quality
    /\ UNCHANGED <<adjuster, run_vars, processed_files, progress_queue, resize, wrappers>>

\* Lines 252-267: process_raw encodes an output.
SaveRaw ==
    /\ quality.jpg_quality # 0
    /\ quality' = [quality EXCEPT !.saved = @ \cup
            {[by |-> "process_raw",
              quality |-> RawSaveQuality(quality.jpg_quality, quality.high_quality_raw)]}]
    /\ quality' # quality
    /\ UNCHANGED <<adjuster, run_vars, processed_files, progress_queue, resize, wrappers>>

\* --------------------------------------------------------- _jpg_task_wrapper

Wrappers == 1 .. MaxWrappers

\* No worker thread runs _jpg_task_wrapper in the runs of Spec.
NoWrappers == [w \in {} |-> [pc |-> "done", read |-> 0]]

\* Line 326: the lock a call of _jpg_task_wrapper enters is the
\* threading.Lock() it has just constructed, an object of its own.
LockOf(w) == w

\* The calls that are inside their with block.
InLock == {w \in DOMAIN wrappers : wrappers[w].pc \in {"read", "write", "put"}}

\* Line 325: process_image returns True or False.
WrapperProcess(w) ==
    /\ wrappers[w].pc = "call"
    /\ \E ok \in BOOLEAN :
        wrappers' = [wrappers EXCEPT ![w].pc = IF ok THEN "lock" ELSE "failed"]
    /\ UNCHANGED <<adjuster, run_vars, processed_files, progress_queue, resize, quality>>

\* Line 326: the lock is acquired when no other thread holds it.
WrapperLock(w) ==
    /\ wrappers[w].pc = "lock"
    /\ \A v \in InLock : LockOf(v) # LockOf(w)
    /\ wrappers' = [wrappers EXCEPT ![w].pc = "read"]
    /\ UNCHANGED <<adjuster, run_vars, processed_files, progress_queue, resize, quality>>

\* Line 327: self.processed_files += 1 reads the attribute ...
WrapperRead(w) ==
    /\ wrappers[w].pc = "read"
    /\ wrappers' = [wrappers EXCEPT ![w].pc = "write", ![w].read = processed_files]
    /\ UNCHANGED <<adjuster, run_vars, processed_files, progress_queue, resize, quality>>

\* ... and stores the sum.
WrapperWrite(w) ==
    /\ wrappers[w].pc = "write"
    /\ processed_files' = wrappers[w].read + 1
    /\ wrappers' = [wrappers EXCEPT ![w].pc = "put"]
    /\ UNCHANGED <<adjuster, run_vars, progress_queue, resize, quality>>

\* Lines 328-331: the progress event is put, the lock released and the task
\* marked done.
WrapperPut(w) ==
    /\ wrappers[w].pc = "put"
    /\ progress_queue' = Append(progress_queue, <<processed_files, total_files>>)
    /\ wrappers' = [wrappers EXCEPT ![w].pc = "done"]
    /\ UNCHANGED <<adjuster, run_vars, processed_files, resize, quality>>

\* ------------------------------------------------------ _jpg_worker_adjuster

\* The threads argument (0 for None) and psutil's core count (0 for None) of
\* the processors whose adjuster is followed: they start it with 16, 4, 20, 5
\* and 15 workers.
AdjusterArgs == {<<0, 0>>, <<0, 1>>, <<0, 5>>, <<5, 1>>, <<15, 1>>}

\* The utilizations psutil.cpu_percent returns: below the low threshold,
\* between the thresholds and above the high threshold.
CpuSamples == {cpu_low_threshold - 10, cpu_low_threshold + 5, cpu_high_threshold + 5}

Jobs == 1 .. MaxJobs

\* The queue.Queue of file paths: a job is in task_queue while it is at no
\* pool.
InTaskQueue == 0

\* No call of _jpg_worker_adjuster is followed in the runs of Spec.
NoAdjuster ==
    [threads |-> 0, cpu_count |-> 0, current_jpg_workers |-> 0,
     last_adjust_time |-> 0, current_time |-> 0, cpu_usage |-> 0, now |-> 0,
     pc |-> "off", pools |-> <<>>, jobs |-> <<>>]

\* Lines 60-72 and 281: a processor is constructed at time 0 and its adjuster
\* is called with an executor (or None) that holds the first jobs, the others
\* waiting in task_queue.
InitAdjuster ==
    /\ tree = {}
    /\ process_raw = TRUE
    /\ rawpy = TRUE
    /\ Constructed(process_raw, process_raw_enabled, running, error_log,
                   total_files, processed_files, skip_files, skipped_system_files)
    /\ Fresh
    /\ resize = NoResize
    /\ quality = NoQuality
    /\ wrappers = NoWrappers
    /\ \E a \in AdjusterArgs, executor \in BOOLEAN, submitted \in 0 .. MaxJobs :
        /\ ~executor => submitted = 0
        /\ jpg_threads = JpgThreads(a[1], a[2])
        /\ adjuster =
            [threads |-> a[1], cpu_count |-> a[2],
             current_jpg_workers |-> jpg_threads,
             last_adjust_time |-> 0, current_time |-> 0, cpu_usage |-> 0,
             now |-> 0, pc |-> "while",
             pools |-> IF executor THEN <<jpg_threads>> ELSE <<>>,
             jobs |-> [j \in Jobs |->
                        IF j <= submitted THEN [at |-> 1, st |-> "pending"]
                        ELSE [at |-> InTaskQueue, st |-> "pending"]]]

\* ---------------------------------------------------------- initial states

Init ==
    /\ \E sc \in Scenarios :
        /\ tree = sc[1]
        /\ process_raw = sc[2]
        /\ rawpy = sc[3]
        /\ jpg_threads = JpgThreads(0, sc[4])
    /\ Constructed(process_raw, process_raw_enabled, running, error_log,
                   total_files, processed_files, skip_files, skipped_system_files)
    /\ Fresh
    /\ resize = NoResize
    /\ quality = NoQuality
    /\ wrappers = NoWrappers
    /\ adjuster = NoAdjuster

\* The resize step alone, on every image size and max_side of the bounds.
InitResize ==
    /\ tree = {}
    /\ process_raw = TRUE
    /\ rawpy = TRUE
    /\ jpg_threads = JpgThreads(0, 1)
    /\ Constructed(process_raw, process_raw_enabled, running, error_log,
                   total_files, processed_files, skip_files, skipped_system_files)
    /\ Fresh
    /\ \E w \in Dims, h \in Dims, m \in Sides :
        resize = [w |-> w, h |-> h, max_side |-> m, size |-> <<w, h>>, done |-> FALSE,
                  raw_size |-> <<w, h>>, raw_done |-> FALSE]
    /\ quality = NoQuality
    /\ wrappers = NoWrappers
    /\ adjuster = NoAdjuster

\* The quality setting alone, on every quality argument of the bounds.
InitQuality ==
    /\ tree = {}
    /\ process_raw = TRUE
    /\ rawpy = TRUE
    /\ jpg_threads = JpgThreads(0, 1)
    /\ Constructed(process_raw, process_raw_enabled, running, error_log,
                   total_files, processed_files, skip_files, skipped_system_files)
    /\ Fresh
    /\ resize = NoResize
    /\ wrappers = NoWrappers
    /\ adjuster = NoAdjuster
    /\ \E q \in QualityArgs, hq \in BOOLEAN :
        quality = [arg |-> q, high_quality_raw |-> hq, jpg_quality |-> 0, saved |-> {}]

\* Worker threads of the executor each enter _jpg_task_wrapper for a file of
\* their own; total_files counts these files.
InitWrappers ==
    /\ tree = {}
    /\ process_raw = TRUE
    /\ rawpy = TRUE
    /\ jpg_threads = JpgThreads(0, 1)
    /\ process_raw_enabled = process_raw
    /\ running = TRUE
    /\ error_log = <<>>
    /\ total_files = MaxWrappers
    /\ processed_files = 0
    /\ skip_files = 0
    /\ skipped_system_files = 0
    /\ Fresh
    /\ resize = NoResize
    /\ quality = NoQuality
    /\ wrappers = [w \in Wrappers |-> [pc |-> "call", read |-> 0]]
    /\ adjuster = NoAdjuster

\* ------------------------------------------------------------------ cancel

\* Lines 479-481: the front end's thread calls cancel() at any moment of a run.
Cancel ==
    /\ pc # "done"
    /\ running
    /\ running' = FALSE
    /\ UNCHANGED <<adjuster, quality, wrappers, resize, tree, process_raw, rawpy, jpg_threads, process_raw_enabled,
                   error_log, total_files, processed_files, skip_files,
                   skipped_system_files, progress_queue, pc, run_no, to_walk,
                   file_groups, image_files, raw_files, it, futures, status,
                   retry, raw_i, outputs, out_dirs, outputs_before, summary,
                   report_written, faults>>

\* -------------------------------------------------------------------- scan

\* The directories of the tree, relative to the input root.
TreeDirs == {Universe[f].dir : f \in tree} \cup {<<>>}

\* The files of a set in ascending order of their index.
RECURSIVE Ascending(_)
Ascending(S) ==
    IF S = {} THEN <<>>
    ELSE LET m == CHOOSE x \in S : \A y \in S : x <= y
         IN  <<m>> \o Ascending(S \ {m})

Reverse(s) == [i \in DOMAIN s |-> s[Len(s) + 1 - i]]

\* The orders in which os.walk may list the files of a directory: the file
\* system's order is taken to be the ascending or the descending one, which
\* puts every two files in both relative orders.
ListOrders(S) == {Ascending(S), Reverse(Ascending(S))}

\* Lines 367-374: one file is put in its group.
AddToGroup(groups, f) ==
    LET low == Lower(Universe[f].name)
        name == SplitStem(low)
        ext == SplitExt(low)
        isImage == ext # <<>> /\ ext[1] \in IMAGE_EXTENSIONS
        isRaw == ext # <<>> /\ ext[1] \in RAW_EXTENSIONS
        g0 == IF \E i \in DOMAIN groups : groups[i].key = name
              THEN groups
              ELSE Append(groups, [key |-> name, image |-> NoFile, raw |-> NoFile])
        k == CHOOSE i \in DOMAIN g0 : g0[i].key = name
    IN  IF ~(isImage \/ isRaw) THEN groups
        ELSE IF isImage THEN [g0 EXCEPT ![k].image = f]
        ELSE [g0 EXCEPT ![k].raw = f]

\* ScanFiles without the filter of system files.
RECURSIVE ScanFilesKeepsSystem(_, _)
ScanFilesKeepsSystem(groups, files) ==
    IF files = <<>> THEN groups
    ELSE ScanFilesKeepsSystem(AddToGroup(groups, Head(files)), Tail(files))

\* Lines 360-374: the files of one directory, in the order listed.
RECURSIVE ScanFiles(_, _)
ScanFiles(groups, files) ==
    IF files = <<>> THEN groups
    ELSE ScanFiles(IF IsSystemFile(Universe[Head(files)].name) THEN groups
                   ELSE AddToGroup(groups, Head(files)),
                   Tail(files))

\* Lines 362-363: the system files among the files listed.
SystemFiles(files) ==
    Cardinality({i \in DOMAIN files : IsSystemFile(Universe[files[i]].name)})

\* Lines 378-384: the images and the RAW files selected from the groups.
RECURSIVE SelectImages(_)
SelectImages(groups) ==
    IF groups = <<>> THEN <<>>
    ELSE (IF Head(groups).image # NoFile THEN <<Head(groups).image>> ELSE <<>>)
         \o SelectImages(Tail(groups))

\* SelectRaws without the test that the group has no image.
RECURSIVE SelectRawsWithImage(_, _)
SelectRawsWithImage(groups, enabled) ==
    IF groups = <<>> THEN <<>>
    ELSE (IF Head(groups).raw # NoFile /\ enabled
          THEN <<Head(groups).raw>> ELSE <<>>)
         \o SelectRawsWithImage(Tail(groups), enabled)

RECURSIVE SelectRaws(_, _)
SelectRaws(groups, enabled) ==
    IF groups = <<>> THEN <<>>
    ELSE (IF Head(groups).image = NoFile /\ Head(groups).raw # NoFile /\ enabled
          THEN <<Head(groups).raw>> ELSE <<>>)
         \o SelectRaws(Tail(groups), enabled)

\* Lines 381-382: the groups whose RAW is skipped for a same-named image.
SkippedRaws(groups, enabled) ==
    Cardinality({i \in DOMAIN groups :
        groups[i].image # NoFile /\ enabled /\ groups[i].raw # NoFile})

\* Start that leaves RAW processing enabled without rawpy.
StartKeepsRaw ==
    /\ pc = "start"
    /\ to_walk' = TreeDirs
    /\ file_groups' = <<>>
    /\ pc' = "scan"
    /\ UNCHANGED <<adjuster, quality, wrappers, resize, tree, process_raw, rawpy, jpg_threads, process_raw_enabled,
                   running, error_log, total_files, processed_files, skip_files,
                   skipped_system_files, progress_queue, run_no, image_files,
                   raw_files, it, futures, status, retry, raw_i, outputs,
                   out_dirs, outputs_before, summary, report_written, faults>>

\* Lines 390-399: run() starts; RAW processing is disabled without rawpy.
Start ==
    /\ pc = "start"
    /\ process_raw_enabled' = (IF process_raw_enabled /\ ~rawpy THEN FALSE
                               ELSE process_raw_enabled)
    /\ to_walk' = TreeDirs
    /\ file_groups' = <<>>
    /\ pc' = "scan"
    /\ UNCHANGED <<adjuster, quality, wrappers, resize, tree, process_raw, rawpy, jpg_threads, running, error_log,
                   total_files, processed_files, skip_files,
                   skipped_system_files, progress_queue, run_no, image_files,
                   raw_files, it, futures, status, retry, raw_i, outputs,
                   out_dirs, outputs_before, summary, report_written, faults>>

\* Lines 357-359: os.walk yields a directory while cancellation is requested:
\* scan_and_group_files returns two empty lists.
ScanCancelled ==
    /\ pc = "scan"
    /\ to_walk # {}
    /\ ~running
    /\ image_files' = <<>>
    /\ raw_files' = <<>>
    /\ pc' = "scanned"
    /\ UNCHANGED <<adjuster, quality, wrappers, resize, tree, process_raw, rawpy, jpg_threads, process_raw_enabled,
                   running, error_log, total_files, processed_files, skip_files,
                   skipped_system_files, progress_queue, run_no, to_walk,
                   file_groups, it, futures, status, retry, raw_i, outputs,
                   out_dirs, outputs_before, summary, report_written, faults>>

\* Lines 357-387: os.walk yields the next directory (the root first) and its
\* files are grouped; after the last directory the groups are selected from.
ScanDir ==
    /\ pc = "scan"
    /\ running
    /\ \E d \in to_walk :
        /\ <<>> \in to_walk => d = <<>>
        /\ \E files \in ListOrders({f \in tree : Universe[f].dir = d}) :
            LET groups == ScanFiles(file_groups, files)
                last == to_walk = {d}
            IN  /\ file_groups' = groups
                /\ skipped_system_files' = skipped_system_files + SystemFiles(files)
                /\ to_walk' = to_walk \ {d}
                /\ IF last
                   THEN /\ image_files' = SelectImages(groups)
                        /\ raw_files' = SelectRaws(groups, process_raw_enabled)
                        /\ skip_files' = skip_files + SkippedRaws(groups, process_raw_enabled)
                        /\ total_files' = Len(image_files') + Len(raw_files')
                        /\ pc' = "scanned"
                   ELSE UNCHANGED <<image_files, raw_files, skip_files, total_files, pc>>
    /\ UNCHANGED <<adjuster, quality, wrappers, resize, tree, process_raw, rawpy, jpg_threads, process_raw_enabled,
                   running, error_log, processed_files, progress_queue, run_no,
                   it, futures, status, retry, raw_i, outputs, out_dirs,
                   outputs_before, summary, report_written, faults>>

\* ----------------------------------------------------------- error logging

\* Lines 80-83: log_error appends one entry naming the file's base name.
LogError(log, filename, error) ==
    Append(log, [name |-> Basename(filename), msg |-> error])

\* The entries of the error log that name a file.
ErrorEntries(f) ==
    {i \in DOMAIN error_log : error_log[i].name = Basename(FilePath(f))}

\* ------------------------------------------------------------ the scheduler

\* _is_processed that finds no output.
IsProcessedNever(f) == FALSE

\* Lines 349-353: _is_processed.
IsProcessed(f) == Exists(OutputJpg(FilePath(f)))

\* Line 409: the images whose output does not exist yet.
RECURSIVE Unprocessed(_)
Unprocessed(files) ==
    IF files = <<>> THEN <<>>
    ELSE (IF IsProcessed(Head(files)) THEN <<>> ELSE <<Head(files)>>)
         \o Unprocessed(Tail(files))

\* Lines 422 and 424.
MaxWorkers ==
    IF jpg_threads <= Len(image_files) THEN jpg_threads ELSE Len(image_files)

InFlightLimit == MaxWorkers * 2

\* Prepare that does not count the files again after the filter.
PrepareKeepsTotal ==
    /\ pc = "scanned"
    /\ IF ~running
       THEN /\ pc' = "done"
            /\ UNCHANGED <<image_files, total_files, it, futures>>
       ELSE /\ image_files' = Unprocessed(image_files)
            /\ total_files' = total_files
            /\ it' = 1
            /\ futures' = <<>>
            /\ pc' = IF image_files' # <<>> THEN "check" ELSE "raw"
    /\ UNCHANGED <<adjuster, quality, wrappers, resize, tree, process_raw, rawpy, jpg_threads, process_raw_enabled,
                   running, error_log, processed_files, skip_files,
                   skipped_system_files, progress_queue, run_no, to_walk,
                   file_groups, raw_files, status, retry, raw_i, outputs,
                   out_dirs, outputs_before, summary, report_written, faults>>

\* Lines 402-424: after the scan, run() returns when cancelled; otherwise it
\* drops the processed images and opens the executor when images remain.
Prepare ==
    /\ pc = "scanned"
    /\ IF ~running
       THEN /\ pc' = "done"
            /\ UNCHANGED <<image_files, total_files, it, futures>>
       ELSE /\ image_files' = Unprocessed(image_files)
            /\ total_files' = Len(image_files') + Len(raw_files)
            /\ it' = 1
            /\ futures' = <<>>
            /\ pc' = IF image_files' # <<>> THEN "check" ELSE "raw"
    /\ UNCHANGED <<adjuster, quality, wrappers, resize, tree, process_raw, rawpy, jpg_threads, process_raw_enabled,
                   running, error_log, processed_files, skip_files,
                   skipped_system_files, progress_queue, run_no, to_walk,
                   file_groups, raw_files, status, retry, raw_i, outputs,
                   out_dirs, outputs_before, summary, report_written, faults>>

\* LoopCheck that does not read the running flag.
LoopCheckIgnoresCancel ==
    /\ pc = "check"
    /\ pc' = "submit"
    /\ UNCHANGED <<adjuster, quality, wrappers, resize, tree, process_raw, rawpy, jpg_threads, process_raw_enabled,
                   running, error_log, total_files, processed_files, skip_files,
                   skipped_system_files, progress_queue, run_no, to_walk,
                   file_groups, image_files, raw_files, it, futures, status,
                   retry, raw_i, outputs, out_dirs, outputs_before, summary,
                   report_written, faults>>

\* Line 426: while self.running.
LoopCheck ==
    /\ pc = "check"
    /\ pc' = IF running THEN "submit" ELSE "exit"
    /\ UNCHANGED <<adjuster, quality, wrappers, resize, tree, process_raw, rawpy, jpg_threads, process_raw_enabled,
                   running, error_log, total_files, processed_files, skip_files,
                   skipped_system_files, progress_queue, run_no, to_walk,
                   file_groups, image_files, raw_files, it, futures, status,
                   retry, raw_i, outputs, out_dirs, outputs_before, summary,
                   report_written, faults>>

\* MaySubmit without the in-flight limit.
MaySubmitNoLimit == it <= Len(image_files)

\* Line 427: whether the inner loop submits another job.
MaySubmit == Len(futures) < InFlightLimit /\ it <= Len(image_files)

\* Lines 427-432: one job is submitted to the executor.
SubmitOne ==
    /\ pc = "submit"
    /\ MaySubmit
    /\ futures' = Append(futures, image_files[it])
    /\ status' = [status EXCEPT ![image_files[it]] = "pending"]
    /\ it' = it + 1
    /\ UNCHANGED <<adjuster, quality, wrappers, resize, tree, process_raw, rawpy, jpg_threads, process_raw_enabled,
                   running, error_log, total_files, processed_files, skip_files,
                   skipped_system_files, progress_queue, pc, run_no, to_walk,
                   file_groups, image_files, raw_files, retry, raw_i, outputs,
                   out_dirs, outputs_before, summary, report_written, faults>>

\* SubmitEnd that leaves the loop when a job has failed.
SubmitEndStopsOnFailure ==
    /\ pc = "submit"
    /\ ~MaySubmit
    /\ pc' = IF futures = <<>> \/ \E f \in tree : status[f] = "fail"
             THEN "exit" ELSE "poll"
    /\ UNCHANGED <<adjuster, quality, wrappers, resize, tree, process_raw, rawpy, jpg_threads, process_raw_enabled,
                   running, error_log, total_files, processed_files, skip_files,
                   skipped_system_files, progress_queue, run_no, to_walk,
                   file_groups, image_files, raw_files, it, futures, status,
                   retry, raw_i, outputs, out_dirs, outputs_before, summary,
                   report_written, faults>>

\* SubmitEnd that leaves the loop when the inputs are exhausted.
SubmitEndWhenExhausted ==
    /\ pc = "submit"
    /\ ~MaySubmit
    /\ pc' = IF futures = <<>> \/ it > Len(image_files) THEN "exit" ELSE "poll"
    /\ UNCHANGED <<adjuster, quality, wrappers, resize, tree, process_raw, rawpy, jpg_threads, process_raw_enabled,
                   running, error_log, total_files, processed_files, skip_files,
                   skipped_system_files, progress_queue, run_no, to_walk,
                   file_groups, image_files, raw_files, it, futures, status,
                   retry, raw_i, outputs, out_dirs, outputs_before, summary,
                   report_written, faults>>

\* Lines 427-434: the inner loop ends; the outer one with it when nothing is
\* in flight.
SubmitEnd ==
    /\ pc = "submit"
    /\ ~MaySubmit
    /\ pc' = IF futures = <<>> THEN "exit" ELSE "poll"
    /\ UNCHANGED <<adjuster, quality, wrappers, resize, tree, process_raw, rawpy, jpg_threads, process_raw_enabled,
                   running, error_log, total_files, processed_files, skip_files,
                   skipped_system_files, progress_queue, run_no, to_walk,
                   file_groups, image_files, raw_files, it, futures, status,
                   retry, raw_i, outputs, out_dirs, outputs_before, summary,
                   report_written, faults>>

\* Line 445: the scheduler's message for a job that returned False, "处理失败".
ProcessFailed == "process failed"

\* A scheduler that counts every finished job, whatever it returned.
CollectCountsFailures(acc, f) ==
    [acc EXCEPT !.processed = @ + 1,
                !.progress = Append(@, <<acc.processed + 1, total_files>>)]

\* Lines 436-448: the result of one finished job is recorded.
Collect(acc, f) ==
    IF status[f] = "ok"
    THEN [acc EXCEPT !.processed = @ + 1,
                     !.progress = Append(@, <<acc.processed + 1, total_files>>)]
    ELSE [acc EXCEPT !.errors = LogError(@, FilePath(f), ProcessFailed)]

\* Lines 436-450: one pass over list(futures); the finished jobs are
\* recorded and removed.
RECURSIVE PollPass(_, _)
PollPass(acc, fs) ==
    IF fs = <<>> THEN acc
    ELSE LET f == Head(fs)
         IN  IF status[f] \in {"ok", "fail"}
             THEN PollPass(Collect(acc, f), Tail(fs))
             ELSE PollPass([acc EXCEPT !.left = Append(@, f)], Tail(fs))

Poll ==
    /\ pc = "poll"
    /\ LET r == PollPass([processed |-> processed_files,
                          progress |-> progress_queue,
                          errors |-> error_log,
                          left |-> <<>>], futures)
       IN  /\ processed_files' = r.processed
           /\ progress_queue' = r.progress
           /\ error_log' = r.errors
           /\ futures' = r.left
    /\ pc' = "check"
    /\ UNCHANGED <<adjuster, quality, wrappers, resize, tree, process_raw, rawpy, jpg_threads, process_raw_enabled,
                   running, total_files, skip_files, skipped_system_files,
                   run_no, to_walk, file_groups, image_files, raw_files, it,
                   status, retry, raw_i, outputs, out_dirs, outputs_before,
                   summary, report_written, faults>>

\* The jobs the executor has been given and has not finished.
Submitted == {image_files[i] : i \in 1 .. (it - 1)}

\* Line 422, the with statement's exit: executor.shutdown(wait=True) returns
\* when every submitted job has finished.
ExecutorExit ==
    /\ pc = "exit"
    /\ \A f \in Submitted : status[f] \in {"ok", "fail"}
    /\ pc' = "raw"
    /\ UNCHANGED <<adjuster, quality, wrappers, resize, tree, process_raw, rawpy, jpg_threads, process_raw_enabled,
                   running, error_log, total_files, processed_files, skip_files,
                   skipped_system_files, progress_queue, run_no, to_walk,
                   file_groups, image_files, raw_files, it, futures, status,
                   retry, raw_i, outputs, out_dirs, outputs_before, summary,
                   report_written, faults>>

\* ------------------------------------------------- the standard-image job

\* A worker thread of the executor may work on f: it already does, or f is
\* the oldest job of the work queue and a thread is free.
WorkerMayRun(f) ==
    \/ status[f] = "running"
    \/ /\ status[f] = "pending"
       /\ Cardinality({g \in tree : status[g] = "running"}) < MaxWorkers
       /\ \A i, j \in DOMAIN image_files :
            image_files[j] = f /\ i < j => status[image_files[i]] # "pending"

\* Lines 161-181: the output is saved; the directory of output_path is made,
\* and the save needs the directory of output_jpg.
SaveSucceeds(filepath) ==
    Dirname(OutputJpg(filepath)) \in out_dirs \cup MakeOutputDirs(filepath)

WriteOutput(f) ==
    {o \in outputs : o.path # OutputJpg(FilePath(f))}
        \cup {[path |-> OutputJpg(FilePath(f)), by |-> f, run |-> run_no]}

\* Raised that logs an error at every failed attempt.
RaisedLogsEachAttempt(f) ==
    /\ error_log' = LogError(error_log, FilePath(f), "exception")
    /\ IF retry[f] < JPG_RETRY_COUNT
       THEN /\ retry' = [retry EXCEPT ![f] = @ + 1]
            /\ status' = [status EXCEPT ![f] = "running"]
       ELSE /\ retry' = retry
            /\ status' = [status EXCEPT ![f] = "fail"]

\* Lines 183-189: what process_image does with an exception.
Raised(f) ==
    IF retry[f] < JPG_RETRY_COUNT
    THEN /\ retry' = [retry EXCEPT ![f] = @ + 1]
         /\ status' = [status EXCEPT ![f] = "running"]
         /\ error_log' = error_log
    ELSE /\ retry' = retry
         /\ status' = [status EXCEPT ![f] = "fail"]
         /\ error_log' = LogError(error_log, FilePath(f), "exception")

\* Lines 121-182: an attempt of process_image that saves the output.
AttemptOk(f) ==
    /\ WorkerMayRun(f)
    /\ SaveSucceeds(FilePath(f))
    /\ out_dirs' = out_dirs \cup MakeOutputDirs(FilePath(f))
    /\ outputs' = WriteOutput(f)
    /\ status' = [status EXCEPT ![f] = "ok"]
    /\ UNCHANGED <<adjuster, quality, wrappers, resize, tree, process_raw, rawpy, jpg_threads, process_raw_enabled,
                   running, error_log, total_files, processed_files, skip_files,
                   skipped_system_files, progress_queue, pc, run_no, to_walk,
                   file_groups, image_files, raw_files, it, futures, retry,
                   raw_i, outputs_before, summary, report_written, faults>>

\* Lines 121-130, 183-189: an attempt whose decode raises.
AttemptDecodeRaises(f) ==
    /\ WorkerMayRun(f)
    /\ ~Universe[f].sound
    /\ faults < MaxFaults
    /\ faults' = faults + 1
    /\ Raised(f)
    /\ UNCHANGED <<adjuster, quality, wrappers, resize, tree, process_raw, rawpy, jpg_threads, process_raw_enabled,
                   running, total_files, processed_files, skip_files,
                   skipped_system_files, progress_queue, pc, run_no, to_walk,
                   file_groups, image_files, raw_files, it, futures, raw_i,
                   outputs, out_dirs, outputs_before, summary, report_written>>

\* Lines 161-189: an attempt whose save raises for want of its directory.
AttemptSaveRaises(f) ==
    /\ WorkerMayRun(f)
    /\ ~SaveSucceeds(FilePath(f))
    /\ out_dirs' = out_dirs \cup MakeOutputDirs(FilePath(f))
    /\ Raised(f)
    /\ UNCHANGED <<adjuster, quality, wrappers, resize, tree, process_raw, rawpy, jpg_threads, process_raw_enabled,
                   running, total_files, processed_files, skip_files,
                   skipped_system_files, progress_queue, pc, run_no, to_walk,
                   file_groups, image_files, raw_files, it, futures, raw_i,
                   outputs, outputs_before, summary, report_written, faults>>

\* ------------------------------------------------------------ the RAW stage

\* RawEnter that also leaves the scheduler loop for the RAW stage while jobs
\* are in flight.
RawEnterBeforeDrain ==
    /\ pc \in {"raw", "poll"}
    /\ pc' = IF raw_files # <<>> /\ running /\ process_raw_enabled
             THEN "rawloop" ELSE "final"
    /\ raw_i' = 1
    /\ UNCHANGED <<adjuster, quality, wrappers, resize, tree, process_raw, rawpy, jpg_threads, process_raw_enabled,
                   running, error_log, total_files, processed_files, skip_files,
                   skipped_system_files, progress_queue, run_no, to_walk,
                   file_groups, image_files, raw_files, it, futures, status,
                   retry, outputs, out_dirs, outputs_before, summary,
                   report_written, faults>>

\* Lines 457 and 334: whether run() enters the loop of process_raw_files.
RawEnter ==
    /\ pc = "raw"
    /\ pc' = IF raw_files # <<>> /\ running /\ process_raw_enabled
             THEN "rawloop" ELSE "final"
    /\ raw_i' = 1
    /\ UNCHANGED <<adjuster, quality, wrappers, resize, tree, process_raw, rawpy, jpg_threads, process_raw_enabled,
                   running, error_log, total_files, processed_files, skip_files,
                   skipped_system_files, progress_queue, run_no, to_walk,
                   file_groups, image_files, raw_files, it, futures, status,
                   retry, outputs, out_dirs, outputs_before, summary,
                   report_written, faults>>

\* The control thread is inside process_raw.
RawBusy == raw_i <= Len(raw_files) /\ status[raw_files[raw_i]] = "decoding"

\* Lines 339-341: the loop ends at the end of the list or on cancellation.
RawLoopEnd ==
    /\ pc = "rawloop"
    /\ ~RawBusy
    /\ raw_i > Len(raw_files) \/ ~running
    /\ pc' = "final"
    /\ UNCHANGED <<adjuster, quality, wrappers, resize, tree, process_raw, rawpy, jpg_threads, process_raw_enabled,
                   running, error_log, total_files, processed_files, skip_files,
                   skipped_system_files, progress_queue, run_no, to_walk,
                   file_groups, image_files, raw_files, it, futures, status,
                   retry, raw_i, outputs, out_dirs, outputs_before, summary,
                   report_written, faults>>

\* RawBegin that does not read the running flag.
RawBeginIgnoresCancel ==
    /\ pc = "rawloop"
    /\ raw_i <= Len(raw_files)
    /\ status[raw_files[raw_i]] = "none"
    /\ status' = [status EXCEPT ![raw_files[raw_i]] = "decoding"]
    /\ UNCHANGED <<adjuster, quality, wrappers, resize, tree, process_raw, rawpy, jpg_threads, process_raw_enabled,
                   running, error_log, total_files, processed_files, skip_files,
                   skipped_system_files, progress_queue, pc, run_no, to_walk,
                   file_groups, image_files, raw_files, it, futures, retry,
                   raw_i, outputs, out_dirs, outputs_before, summary,
                   report_written, faults>>

\* Lines 339-342: the flag is read before each file, and process_raw is
\* called on the control thread.
RawBegin ==
    /\ pc = "rawloop"
    /\ raw_i <= Len(raw_files) /\ running
    /\ status[raw_files[raw_i]] = "none"
    /\ status' = [status EXCEPT ![raw_files[raw_i]] = "decoding"]
    /\ UNCHANGED <<adjuster, quality, wrappers, resize, tree, process_raw, rawpy, jpg_threads, process_raw_enabled,
                   running, error_log, total_files, processed_files, skip_files,
                   skipped_system_files, progress_queue, pc, run_no, to_walk,
                   file_groups, image_files, raw_files, it, futures, retry,
                   raw_i, outputs, out_dirs, outputs_before, summary,
                   report_written, faults>>

\* Lines 193-200: process_raw reaches the decoder.
RawDecoderReached == process_raw_enabled /\ rawpy

\* Lines 342-345 and 192-268: process_raw saves the output and returns True;
\* the file counts.
RawOk ==
    /\ pc = "rawloop"
    /\ RawBusy
    /\ LET f == raw_files[raw_i]
       IN  /\ RawDecoderReached
           /\ SaveSucceeds(FilePath(f))
           /\ out_dirs' = out_dirs \cup MakeOutputDirs(FilePath(f))
           /\ outputs' = WriteOutput(f)
           /\ status' = [status EXCEPT ![f] = "ok"]
    /\ processed_files' = processed_files + 1
    /\ progress_queue' = Append(progress_queue, <<processed_files', total_files>>)
    /\ raw_i' = raw_i + 1
    /\ UNCHANGED <<adjuster, quality, wrappers, resize, tree, process_raw, rawpy, jpg_threads, process_raw_enabled,
                   running, error_log, total_files, skip_files,
                   skipped_system_files, pc, run_no, to_walk, file_groups,
                   image_files, raw_files, it, futures, retry, outputs_before,
                   summary, report_written, faults>>

\* Lines 342 and 192-271: process_raw raises in the decoder (a codec failure)
\* or in the save (its directory is missing); the error is logged once and
\* process_raw returns False.
RawRaises ==
    /\ pc = "rawloop"
    /\ RawBusy
    /\ process_raw_enabled
    /\ LET f == raw_files[raw_i]
       IN  /\ \/ /\ ~rawpy
                 /\ UNCHANGED <<faults, out_dirs>>
              \/ /\ rawpy
                 /\ ~Universe[f].sound
                 /\ faults < MaxFaults
                 /\ faults' = faults + 1
                 /\ UNCHANGED out_dirs
              \/ /\ rawpy
                 /\ ~SaveSucceeds(FilePath(f))
                 /\ out_dirs' = out_dirs \cup MakeOutputDirs(FilePath(f))
                 /\ UNCHANGED faults
           /\ error_log' = LogError(error_log, FilePath(f), "exception")
           /\ status' = [status EXCEPT ![f] = "fail"]
    /\ raw_i' = raw_i + 1
    /\ UNCHANGED <<adjuster, quality, wrappers, resize, tree, process_raw, rawpy, jpg_threads, process_raw_enabled,
                   running, total_files, processed_files, skip_files,
                   skipped_system_files, progress_queue, pc, run_no, to_walk,
                   file_groups, image_files, raw_files, it, futures, retry,
                   outputs, outputs_before, summary, report_written>>

\* ------------------------------------------------------------- end of run

\* Lines 460-477: the summary and the error report of a run that was not
\* cancelled; a cancelled run logs that it was cancelled.
Finalize ==
    /\ pc = "final"
    /\ IF running
       THEN /\ summary' = <<[total |-> total_files, ok |-> processed_files,
                             skip |-> skip_files, errors |-> Len(error_log)]>>
            /\ report_written' = (error_log # <<>>)
       ELSE UNCHANGED <<summary, report_written>>
    /\ pc' = "done"
    /\ UNCHANGED <<adjuster, quality, wrappers, resize, tree, process_raw, rawpy, jpg_threads, process_raw_enabled,
                   running, error_log, total_files, processed_files, skip_files,
                   skipped_system_files, progress_queue, run_no, to_walk,
                   file_groups, image_files, raw_files, it, futures, status,
                   retry, raw_i, outputs, out_dirs, outputs_before, faults>>

\* Lines 696-709 and 813-822: the front end constructs a new ImageProcessor
\* for the same input and output directories and runs it.
Rerun ==
    /\ pc = "done"
    /\ run_no < MaxRuns
    /\ UNCHANGED <<adjuster, quality, wrappers, resize, tree, process_raw, rawpy, jpg_threads, outputs, out_dirs>>
    /\ run_no' = run_no + 1
    /\ Constructed(process_raw, process_raw_enabled', running', error_log',
                   total_files', processed_files', skip_files', skipped_system_files')
    /\ progress_queue' = <<>>
    /\ pc' = "start"
    /\ to_walk' = {}
    /\ file_groups' = <<>>
    /\ image_files' = <<>>
    /\ raw_files' = <<>>
    /\ it' = 1
    /\ futures' = <<>>
    /\ status' = [f \in tree |-> "none"]
    /\ retry' = [f \in tree |-> 0]
    /\ raw_i' = 1
    /\ outputs_before' = OutputPaths
    /\ summary' = <<>>
    /\ report_written' = FALSE
    /\ faults' = 0

\* ------------------------------------------- the steps of the worker adjuster

\* The executor variable of the adjuster: its latest pool, 0 for None.
Executor == Len(adjuster.pools)

\* The jobs a pool has been given and has not started: its _work_queue.
WorkQueue(p) == {j \in Jobs : adjuster.jobs[j].at = p /\ adjuster.jobs[j].st = "pending"}

\* The jobs waiting in task_queue.
TaskQueue == WorkQueue(InTaskQueue)

\* The jobs of a pool that have not finished.
Unfinished(p) == {j \in Jobs : adjuster.jobs[j].at = p /\ adjuster.jobs[j].st # "done"}

\* Line 282: the condition of the adjuster's loop.
AdjusterGoesOn ==
    running /\ (TaskQueue # {} \/ (Executor # 0 /\ WorkQueue(Executor) # {}))

\* The variables the adjuster and its pools leave alone.
adjuster_frame == <<tree, process_raw, rawpy, jpg_threads, process_raw_enabled,
                    total_files, processed_files, skip_files,
                    skipped_system_files, progress_queue, pc, run_no, to_walk,
                    file_groups, image_files, raw_files, it, futures, status,
                    retry, raw_i, outputs, out_dirs, outputs_before, summary,
                    report_written, faults, resize, quality, wrappers>>

\* Lines 282-288: the loop goes on; within the minimum interval since the
\* last adjustment the adjuster sleeps and tests again.
AdjusterWait ==
    /\ adjuster.pc = "while"
    /\ AdjusterGoesOn
    /\ LET time_since_last_adjust == adjuster.now - adjuster.last_adjust_time
       IN  /\ time_since_last_adjust < THREAD_ADJUST_MIN_INTERVAL
           /\ adjuster.now < MaxTime
           /\ adjuster' = [adjuster EXCEPT
                !.current_time = adjuster.now,
                !.now = @ + Min(THREAD_ADJUST_MIN_INTERVAL - time_since_last_adjust,
                                cpu_check_interval)]
    /\ UNCHANGED <<adjuster_frame, running, error_log>>

\* AdjusterDue without the minimum interval.
AdjusterDueAtOnce ==
    /\ adjuster.pc = "while"
    /\ AdjusterGoesOn
    /\ adjuster' = [adjuster EXCEPT !.current_time = adjuster.now, !.pc = "sample"]
    /\ UNCHANGED <<adjuster_frame, running, error_log>>

\* Lines 282-286: the loop goes on and the minimum interval has passed.
AdjusterDue ==
    /\ adjuster.pc = "while"
    /\ AdjusterGoesOn
    /\ adjuster.now - adjuster.last_adjust_time >= THREAD_ADJUST_MIN_INTERVAL
    /\ adjuster' = [adjuster EXCEPT !.current_time = adjuster.now, !.pc = "sample"]
    /\ UNCHANGED <<adjuster_frame, running, error_log>>

\* Lines 274-276 and 290: psutil.cpu_percent measures the utilization.
AdjusterSample ==
    /\ adjuster.pc = "sample"
    /\ adjuster.now < MaxTime
    /\ \E usage \in CpuSamples :
        adjuster' = [adjuster EXCEPT !.cpu_usage = usage,
                                     !.now = @ + CpuSampleInterval,
                                     !.pc = "adjust"]
    /\ UNCHANGED <<adjuster_frame, running, error_log>>

\* Lines 277-279 and 290: psutil.cpu_percent raises; the error is logged and
\* the default utilization is returned.
AdjusterSampleFails ==
    /\ adjuster.pc = "sample"
    /\ error_log' = LogError(error_log, <<"CPU">>, "sampling failed")
    /\ adjuster' = [adjuster EXCEPT !.cpu_usage = DefaultCpuUsage, !.pc = "adjust"]
    /\ UNCHANGED <<adjuster_frame, running>>

\* Lines 295-303 and 308-316: the executor is shut down without waiting, a
\* pool of new_workers threads replaces it, and every job waiting in
\* task_queue is submitted to the new pool.  The jobs of the old pool stay
\* with it.
Rebuild(new_workers) ==
    [adjuster EXCEPT
        !.current_jpg_workers = new_workers,
        !.last_adjust_time = adjuster.current_time,
        !.pools = Append(@, new_workers),
        !.jobs = [j \in Jobs |->
                    IF j \in TaskQueue
                    THEN [at |-> Executor + 1, st |-> "pending"]
                    ELSE adjuster.jobs[j]],
        !.pc = "sleep"]

\* Line 292: the utilization is above the high threshold and the workers are
\* more than the minimum.
TooBusy ==
    adjuster.cpu_usage > cpu_high_threshold
        /\ adjuster.current_jpg_workers > min_jpg_threads

\* Line 305: otherwise, the utilization is below the low threshold and the
\* workers are fewer than the maximum.
Idle ==
    /\ ~TooBusy
    /\ adjuster.cpu_usage < cpu_low_threshold
    /\ adjuster.current_jpg_workers < max_jpg_threads

\* Lines 291-303: the worker count is decreased.
AdjustDown ==
    /\ adjuster.pc = "adjust"
    /\ TooBusy
    /\ adjuster' = Rebuild(Max(adjuster.current_jpg_workers - WorkerStepSize, min_jpg_threads))
    /\ UNCHANGED <<adjuster_frame, running, error_log>>

\* Lines 305-316: the worker count is increased.
AdjustUp ==
    /\ adjuster.pc = "adjust"
    /\ Idle
    /\ adjuster' = Rebuild(Min(adjuster.current_jpg_workers + WorkerStepSize, max_jpg_threads))
    /\ UNCHANGED <<adjuster_frame, running, error_log>>

\* Lines 291-316: neither branch is taken.
AdjustNone ==
    /\ adjuster.pc = "adjust"
    /\ ~TooBusy
    /\ ~Idle
    /\ adjuster' = [adjuster EXCEPT !.pc = "sleep"]
    /\ UNCHANGED <<adjuster_frame, running, error_log>>

\* Line 318: time.sleep(self.cpu_check_interval).
AdjusterSleep ==
    /\ adjuster.pc = "sleep"
    /\ adjuster.now < MaxTime
    /\ adjuster' = [adjuster EXCEPT !.now = @ + cpu_check_interval, !.pc = "while"]
    /\ UNCHANGED <<adjuster_frame, running, error_log>>

\* Line 282: the loop is left.
AdjusterLeaves ==
    /\ adjuster.pc = "while"
    /\ ~AdjusterGoesOn
    /\ adjuster' = [adjuster EXCEPT !.pc = "shutdown"]
    /\ UNCHANGED <<adjuster_frame, running, error_log>>

\* Lines 320-321: executor.shutdown(wait=True) returns when every job of
\* the latest pool has finished, and the adjuster returns.
AdjusterReturns ==
    /\ adjuster.pc = "shutdown"
    /\ Executor # 0 => Unfinished(Executor) = {}
    /\ adjuster' = [adjuster EXCEPT !.pc = "returned"]
    /\ UNCHANGED <<adjuster_frame, running, error_log>>

\* A worker thread of a pool takes the first job of the pool's _work_queue; a
\* pool that was shut down without waiting still runs the jobs it holds.
JobStarts(j) ==
    /\ adjuster.pc # "off"
    /\ LET p == adjuster.jobs[j].at
       IN  /\ p # InTaskQueue
           /\ j \in WorkQueue(p)
           /\ \A i \in WorkQueue(p) : j <= i
           /\ Cardinality({i \in Jobs : adjuster.jobs[i].at = p
                                        /\ adjuster.jobs[i].st = "running"}) < adjuster.pools[p]
    /\ adjuster' = [adjuster EXCEPT !.jobs[j].st = "running"]
    /\ UNCHANGED <<adjuster_frame, running, error_log>>

\* Lines 323-331: the job's _jpg_task_wrapper returns.
JobEnds(j) ==
    /\ adjuster.pc # "off"
    /\ adjuster.jobs[j].st = "running"
    /\ adjuster' = [adjuster EXCEPT !.jobs[j].st = "done"]
    /\ UNCHANGED <<adjuster_frame, running, error_log>>

\* ------------------------------------------------------- the specification

Next ==
    \/ Cancel
    \/ Start
    \/ ScanCancelled
    \/ ScanDir
    \/ Prepare
    \/ LoopCheck
    \/ SubmitOne
    \/ SubmitEnd
    \/ Poll
    \/ ExecutorExit
    \/ \E f \in tree : AttemptOk(f)
    \/ \E f \in tree : AttemptDecodeRaises(f)
    \/ \E f \in tree : AttemptSaveRaises(f)
    \/ RawEnter
    \/ RawLoopEnd
    \/ RawBegin
    \/ RawOk
    \/ RawRaises
    \/ Finalize
    \/ Rerun

Spec == Init /\ [][Next]_vars

\* A step of the control thread in the scheduler loop of run().
SchedulerStep == LoopCheck \/ SubmitOne \/ SubmitEnd \/ Poll

\* A step of a worker thread of the executor on a submitted job.
WorkerStep ==
    \E f \in tree : AttemptOk(f) \/ AttemptDecodeRaises(f) \/ AttemptSaveRaises(f)

\* One run with RAW processing enabled and rawpy imported.
InitFair == Init /\ process_raw /\ rawpy

NextFair ==
    \/ Cancel
    \/ Start
    \/ ScanCancelled
    \/ ScanDir
    \/ Prepare
    \/ LoopCheck
    \/ SubmitOne
    \/ SubmitEnd
    \/ Poll
    \/ ExecutorExit
    \/ \E f \in tree : AttemptOk(f)
    \/ \E f \in tree : AttemptDecodeRaises(f)
    \/ \E f \in tree : AttemptSaveRaises(f)
    \/ RawEnter
    \/ RawLoopEnd
    \/ RawBegin
    \/ RawOk
    \/ RawRaises
    \/ Finalize

\* The run in which the control thread keeps running in the scheduler loop,
\* and the workers keep working while a job is queued or running.
SpecFair ==
    InitFair /\ [][NextFair]_vars /\ WF_vars(SchedulerStep) /\ WF_vars(WorkerStep)

NextResize ==
    \/ ResizeImage
    \/ ResizeRaw

SpecResize == InitResize /\ [][NextResize]_vars

NextQuality ==
    \/ ConstructQuality
    \/ SaveImage
    \/ SaveRaw

SpecQuality == InitQuality /\ [][NextQuality]_vars

NextWrappers ==
    \/ \E w \in DOMAIN wrappers : WrapperProcess(w)
    \/ \E w \in DOMAIN wrappers : WrapperLock(w)
    \/ \E w \in DOMAIN wrappers : WrapperRead(w)
    \/ \E w \in DOMAIN wrappers : WrapperWrite(w)
    \/ \E w \in DOMAIN wrappers : WrapperPut(w)

SpecWrappers == InitWrappers /\ [][NextWrappers]_vars

NextAdjuster ==
    \/ Cancel
    \/ AdjusterWait
    \/ AdjusterDue
    \/ AdjusterSample
    \/ AdjusterSampleFails
    \/ AdjustDown
    \/ AdjustUp
    \/ AdjustNone
    \/ AdjusterSleep
    \/ AdjusterLeaves
    \/ AdjusterReturns
    \/ \E j \in Jobs : JobStarts(j)
    \/ \E j \in Jobs : JobEnds(j)

SpecAdjuster == InitAdjuster /\ [][NextAdjuster]_vars

\* ------------------------------------------------------------------ claims

Range(s) == {s[i] : i \in DOMAIN s}

\* The extension by which the scan classifies a file.
FileExt(f) == SplitExt(Lower(Universe[f].name))

\* The standard images and the RAW files among the files of the universe.
ImageIds ==
    {f \in FileIds : /\ ~IsSystemFile(Universe[f].name)
                     /\ FileExt(f) # <<>>
                     /\ FileExt(f)[1] \in IMAGE_EXTENSIONS}

RawIds ==
    {f \in FileIds : /\ ~IsSystemFile(Universe[f].name)
                     /\ FileExt(f) # <<>>
                     /\ FileExt(f)[1] \in RAW_EXTENSIONS}

IsImageFile(f) == f \in ImageIds

IsRawFile(f) == f \in RawIds

\* The output path the program maps each file of the universe to.
MappedOutput == [f \in FileIds |-> OutputJpg(FilePath(f))]

\* run() has returned and was not cancelled.
Completed == pc = "done" /\ running

\* run() has returned and was cancelled.
Cancelled == pc = "done" /\ ~running

\* The jobs whose result the scheduler or the RAW loop has taken.
CollectedOk == {f \in tree : status[f] = "ok" /\ f \notin Range(futures)}

\* C1: after a completed run, a standard image that failed on all three
\* attempts of process_image has exactly one entry in error_log.
C1_OneEntryPerFailedImage ==
    Completed =>
        \A f \in tree :
            IsImageFile(f) /\ status[f] = "fail" => Cardinality(ErrorEntries(f)) = 1

\* C2: when a run was cancelled, every job that was submitted has finished
\* and is recorded: processed_files counts every success once, and every
\* failure has the scheduler's entry.
C2_CancelledRunCountsEveryJob ==
    Cancelled =>
        /\ \A f \in Submitted : status[f] \in {"ok", "fail"}
        /\ processed_files = Cardinality({f \in tree : status[f] = "ok"})
        /\ \A f \in Submitted : status[f] = "fail" =>
                \E i \in ErrorEntries(f) : error_log[i].msg = ProcessFailed

\* C3: once running is false and the submission loop of the iteration in
\* progress has ended, the scheduler never enters the submission loop again
\* and the iterator of the inputs never advances.
C3_NoSubmitAfterCancel ==
    [][(~running /\ pc # "submit" /\ run_no' = run_no)
            => (pc' # "submit" /\ it' = it /\ Submitted' = Submitted)]_vars

\* A cancelled run has ended with some inputs submitted and others never
\* submitted.
C3_Witness ==
    /\ Cancelled
    /\ it > 1
    /\ it <= Len(image_files)
    /\ \E f \in Range(image_files) : status[f] = "none"

\* C4: when a run has ended, processed_files + len(error_log) + skip_files +
\* skipped_system_files is at most the number of files of the input tree.
C4_CountsWithinFilesSeen ==
    pc = "done" =>
        processed_files + Len(error_log) + skip_files + skipped_system_files
            <= Cardinality(tree)

\* The input tree holds no RAW file.
StandardOnly == \A f \in tree : ~IsRawFile(f)

\* The mapped output of f was there when the run started.
HadOutput(f) == MappedOutput[f] \in outputs_before

\* The positions of run() from the scheduler loop to the end-of-run report.
Scheduling == {"check", "submit", "poll", "exit", "raw", "rawloop", "final"}

\* C5: in a second run, an image whose mapped output exists after the first
\* run is dropped from the work list before scheduling, is never submitted
\* and is not counted, and its output is not written again; with standard
\* images only, no output of the first run is removed or rewritten, and the
\* set of outputs stays the same when every selected image had its output.
C5_RerunSkipsProcessed ==
    run_no > 1 =>
        /\ \A f \in tree : IsImageFile(f) /\ HadOutput(f) =>
                /\ status[f] = "none"
                /\ pc \in Scheduling => f \notin Range(image_files)
                /\ \A o \in outputs : o.by = f => o.run < run_no
        /\ processed_files = Cardinality(CollectedOk)
        /\ StandardOnly =>
                /\ outputs_before \subseteq OutputPaths
                /\ \A o \in outputs : o.path \in outputs_before => o.run < run_no
                /\ (\A f \in tree : IsImageFile(f) => HadOutput(f))
                        => OutputPaths = outputs_before

\* A second run has completed on a tree of standard images, one of which
\* was processed by the first run.
C5_Witness ==
    /\ run_no = 2
    /\ Completed
    /\ StandardOnly
    /\ \E f \in tree : IsImageFile(f) /\ HadOutput(f)
                       /\ \E o \in outputs : o.by = f /\ o.run = 1

\* The scan has gone through every directory.
ScanComplete == pc \notin {"start", "scan"} /\ to_walk = {}

HasBoth(g) == g.image # NoFile /\ g.raw # NoFile

\* C6: with RAW processing enabled, a group with a standard image selects
\* the image only: its RAW is not in the RAW work list, is never dispatched
\* and writes no output; skip_files counts one per group that has both; and
\* no group has its image and its RAW in the work lists.
C6_ImageShadowsRaw ==
    process_raw_enabled /\ ScanComplete =>
        /\ \A i \in DOMAIN file_groups :
            LET g == file_groups[i]
            IN  /\ g.image # NoFile /\ pc = "scanned" => g.image \in Range(image_files)
                /\ HasBoth(g) =>
                        /\ g.raw \notin Range(raw_files)
                        /\ status[g.raw] = "none"
                        /\ \A o \in outputs : o.by # g.raw
                /\ ~(g.image \in Range(image_files) /\ g.raw \in Range(raw_files))
        /\ skip_files = Cardinality({i \in DOMAIN file_groups : HasBoth(file_groups[i])})

\* A run with RAW processing enabled has completed on a tree with an image
\* and its same-named RAW; the image was processed.
C6_Witness ==
    /\ Completed
    /\ process_raw_enabled
    /\ skip_files = 1
    /\ \E i \in DOMAIN file_groups :
        /\ HasBoth(file_groups[i])
        /\ status[file_groups[i].image] = "ok"

\* C7: when the image is larger than max_side, both output dimensions are
\* even and neither is below the scaled value; 101x50 with max_side 50
\* gives 50x26.
C7_EvenAndNotBelowScaled ==
    LET w == resize.w
        h == resize.h
        m == resize.max_side
    IN  resize.done /\ Max(w, h) > m =>
            /\ resize.size[1] % 2 = 0
            /\ resize.size[2] % 2 = 0
            /\ resize.size[1] * Max(w, h) >= w * m
            /\ resize.size[2] * Max(w, h) >= h * m
            /\ (w = 101 /\ h = 50 /\ m = 50 => resize.size = <<50, 26>>)

\* process_image returned True for f on its second attempt.
RetriedOnce(f) == IsImageFile(f) /\ status[f] = "ok" /\ retry[f] = 1

\* C8: an image whose first attempt raised and whose second succeeded has no
\* entry in error_log; processed_files counts every collected success exactly
\* once; and a completed run has collected it.
C8_RetryThenSuccess ==
    /\ processed_files = Cardinality(CollectedOk)
    /\ \A f \in tree : RetriedOnce(f) =>
            /\ ErrorEntries(f) = {}
            /\ Completed => f \in CollectedOk

\* A completed run has counted an image that succeeded on its second attempt.
C8_Witness ==
    /\ Completed
    /\ \E f \in tree : RetriedOnce(f) /\ f \in CollectedOk
    /\ processed_files >= 1

\* C9: a cancelled run has logged the summary, and has written the error
\* report when error_log is not empty.
C9_CancelledRunFinalized ==
    Cancelled =>
        /\ summary # <<>>
        /\ error_log # <<>> => report_written

\* output_root joined with the input's relative path, the final extension of
\* the file name replaced by ".jpg".
MirroredJpg(f) ==
    Join(Join(output_dir, Universe[f].dir),
         SplitStem(Universe[f].name) \o <<".jpg">>)

\* C10: the output path computed for a dispatched input mirrors the input's
\* path under the output root, with only the final extension replaced.
C10_OutputMirrorsInput ==
    \A f \in tree : status[f] # "none" => OutputJpg(FilePath(f)) = MirroredJpg(f)

\* The files the run has selected for processing.
Selected == Range(image_files) \cup Range(raw_files)

\* C11: a failed job never aborts the batch: when a run that was not
\* cancelled has returned, every selected file was dispatched and has
\* returned True or False, nothing is left in flight, every success is
\* counted, every failure has an entry in error_log, and the completion
\* summary was logged with these counts.
C11_FailureNeverAbortsBatch ==
    Completed =>
        /\ \A f \in Selected : status[f] \in {"ok", "fail"}
        /\ futures = <<>>
        /\ processed_files = Cardinality({f \in tree : status[f] = "ok"})
        /\ \A f \in tree : status[f] = "fail" => ErrorEntries(f) # {}
        /\ summary = <<[total |-> total_files, ok |-> processed_files,
                        skip |-> skip_files, errors |-> Len(error_log)]>>

\* A run has completed in which a job failed and a job submitted after it
\* succeeded and was counted.
C11_Witness ==
    /\ Completed
    /\ summary # <<>>
    /\ \E i, j \in DOMAIN image_files :
        /\ i < j
        /\ status[image_files[i]] = "fail"
        /\ status[image_files[j]] = "ok"
        /\ processed_files >= 1

\* C12: in every state of a run processed_files <= total_files; from the
\* filter on, total_files is the number of images left by the filter (none
\* of which had its output) plus the number of selected RAW files; and every
\* progress event (processed, total) has processed <= total.
C12_ProcessedWithinTotal ==
    /\ processed_files <= total_files
    /\ pc \in Scheduling =>
            /\ total_files = Len(image_files) + Len(raw_files)
            /\ \A f \in Range(image_files) : ~HadOutput(f)
    /\ \A i \in DOMAIN progress_queue : progress_queue[i][1] <= progress_queue[i][2]

\* A second run has completed in which the filter dropped an image and every
\* file that was left has been processed and reported.
C12_Witness ==
    /\ run_no = 2
    /\ Completed
    /\ \E f \in tree : IsImageFile(f) /\ HadOutput(f)
    /\ total_files >= 1
    /\ processed_files = total_files
    /\ Len(progress_queue) = total_files

\* The system files of the input tree.
SystemFilesOfTree == {f \in tree : IsSystemFile(Universe[f].name)}

\* C13: a file whose name starts with "._" or "_" is in no group, is never
\* selected or dispatched, writes no output and has no entry in error_log,
\* whatever its extension; total_files counts the selected files only; and
\* when the scan has gone through the tree skipped_system_files is the
\* number of these files.
C13_SystemFileOnlyCounted ==
    /\ \A f \in SystemFilesOfTree :
            /\ \A i \in DOMAIN file_groups :
                    file_groups[i].image # f /\ file_groups[i].raw # f
            /\ f \notin Selected
            /\ status[f] = "none"
            /\ ErrorEntries(f) = {}
            /\ \A o \in outputs : o.by # f
    /\ pc \notin {"start", "scan"} =>
            /\ total_files = Cardinality(Selected)
            /\ Selected \cap SystemFilesOfTree = {}
    /\ processed_files = Cardinality(CollectedOk)
    /\ skip_files <= Len(file_groups)
    /\ skipped_system_files <= Cardinality(SystemFilesOfTree)
    /\ ScanComplete => skipped_system_files = Cardinality(SystemFilesOfTree)

\* A run has completed on a tree with a system file and another file, which
\* was processed.
C13_Witness ==
    /\ Completed
    /\ SystemFilesOfTree # {}
    /\ skipped_system_files = Cardinality(SystemFilesOfTree)
    /\ total_files = 1
    /\ processed_files = 1

\* C14: the effective jpg_quality of a quality argument q is 85 below 85, q
\* from 85 to 100 and 100 above (10 gives 85, 500 gives 100), and every
\* encode of either pipeline, the fixed 95 of the high-quality RAW mode
\* included, uses a quality from 85 to 100.
C14_QualityClamped ==
    quality.jpg_quality # 0 =>
        /\ quality.arg < 85 => quality.jpg_quality = 85
        /\ quality.arg \in 85 .. 100 => quality.jpg_quality = quality.arg
        /\ quality.arg > 100 => quality.jpg_quality = 100
        /\ quality.arg = 10 => quality.jpg_quality = 85
        /\ quality.arg = 500 => quality.jpg_quality = 100
        /\ \A e \in quality.saved :
                /\ e.quality \in 85 .. 100
                /\ e.by = "process_image" => e.quality = quality.jpg_quality
                /\ e.by = "process_raw" =>
                        e.quality = IF quality.high_quality_raw THEN 95
                                    ELSE quality.jpg_quality

\* A processor constructed with quality 10 in high-quality RAW mode has
\* encoded a standard image at 85 and a RAW file at 95.
C14_Witness ==
    /\ quality.arg = 10
    /\ quality.high_quality_raw
    /\ quality.saved = {[by |-> "process_image", quality |-> 85],
                        [by |-> "process_raw", quality |-> 95]}

\* The positions of run() inside the scheduler loop.
InLoop == {"check", "submit", "poll"}

\* C15: in every state of the scheduler loop, the jobs submitted and not yet
\* collected are at most 2 x min(jpg_threads, number of images to process).
C15_InFlightWithinLimit ==
    pc \in InLoop =>
        /\ Len(futures) <= 2 * Min(jpg_threads, Len(image_files))
        /\ Cardinality(Range(futures)) = Len(futures)
        /\ Range(futures) \subseteq Submitted

\* The scheduler polls with as many jobs in flight as the limit allows while
\* inputs are waiting to be submitted.
C15_Witness ==
    /\ pc = "poll"
    /\ Len(futures) = 2 * Min(jpg_threads, Len(image_files))
    /\ it <= Len(image_files)

\* The calls of _jpg_task_wrapper that have returned after a success.
Succeeded == {w \in DOMAIN wrappers : wrappers[w].pc = "done"}

\* Every call of _jpg_task_wrapper has returned.
AllReturned == \A w \in DOMAIN wrappers : wrappers[w].pc \in {"done", "failed"}

\* C16: the completions are serialized by one lock: at most one call of
\* _jpg_task_wrapper is inside the locked block, and when N calls on
\* different workers have each finished a successful process_image,
\* processed_files has increased by N and the progress events carry the
\* counts 1 .. N in increasing order.
C16_CompletionsSerialized ==
    /\ Cardinality(InLock) <= 1
    /\ AllReturned =>
            /\ processed_files = Cardinality(Succeeded)
            /\ Len(progress_queue) = Cardinality(Succeeded)
            /\ \A i \in DOMAIN progress_queue : progress_queue[i][1] = i

\* The RAW jobs that are running, and the standard-image jobs that are
\* queued or running in the worker pool.
RawRunning == {f \in tree : status[f] = "decoding"}
PoolBusy == {f \in tree : status[f] \in {"pending", "running"}}

\* C17: no RAW job runs while a standard-image job is queued or running: the
\* RAW stage is entered with the pool drained, at most one RAW job is
\* running, it is the file the control thread's loop is at, the files
\* before it have returned and the files after it have not been started.
C17_RawAfterDrain ==
    /\ pc \in {"raw", "rawloop", "final"} => PoolBusy = {}
    /\ Cardinality(RawRunning) <= 1
    /\ \A f \in RawRunning :
            /\ PoolBusy = {}
            /\ pc = "rawloop"
            /\ raw_i <= Len(raw_files) /\ f = raw_files[raw_i]
    /\ \A f \in tree : IsRawFile(f) /\ pc \notin {"rawloop", "final", "done"} =>
            status[f] = "none"
    /\ pc = "rawloop" =>
            \A i \in DOMAIN raw_files :
                /\ i < raw_i => status[raw_files[i]] \in {"ok", "fail"}
                /\ i > raw_i => status[raw_files[i]] = "none"

\* A RAW job runs after the standard-image stage has processed an image.
C17_Witness ==
    /\ RawRunning # {}
    /\ \E g \in Range(image_files) : status[g] \in {"ok", "fail"}

\* C18: once running is false, a scan in progress returns two empty lists
\* and run() returns without dispatching anything; no RAW file's processing
\* is started; and a RAW file that is being decoded is not interrupted: the
\* control thread stays in its process_raw until it returns True or False.
C18_CancelGatesStages ==
    [][(~running /\ run_no' = run_no) =>
            /\ pc = "scan" =>
                    /\ image_files' = <<>> /\ raw_files' = <<>>
                    /\ pc' = "scanned" /\ status' = status
            /\ pc = "scanned" => pc' = "done" /\ status' = status
            /\ \A f \in tree : IsRawFile(f) =>
                    /\ status[f] = "none" => status'[f] = "none"
                    /\ status[f] = "decoding" =>
                            /\ status'[f] \in {"decoding", "ok", "fail"}
                            /\ pc' = "rawloop"]_vars

\* A cancelled run has ended with one RAW file processed and the next never
\* started.
C18_Witness ==
    /\ Cancelled
    /\ Len(raw_files) = 2
    /\ status[raw_files[1]] \in {"ok", "fail"}
    /\ status[raw_files[2]] = "none"

\* C19: with fair workers the scheduler loop is left; when it is left
\* without cancellation every input was submitted and nothing is in flight;
\* and a poll is never held up by an unfinished job: it is always possible,
\* leaves the unfinished jobs in flight and goes on.
C19_SchedulerLoopEnds ==
    /\ [](pc = "exit" /\ running => it > Len(image_files) /\ futures = <<>>)
    /\ [](pc = "poll" => ENABLED Poll)
    /\ [][pc = "poll" /\ pc' # "poll" =>
            /\ pc' = "check"
            /\ \A f \in Range(futures) :
                    status[f] \in {"pending", "running"} => f \in Range(futures')]_vars
    /\ (pc \in InLoop ~> pc \notin InLoop)

\* The loop was left without cancellation after every one of more inputs
\* than the in-flight limit was submitted and collected.
C19_Witness ==
    /\ pc = "exit"
    /\ running
    /\ Len(image_files) > InFlightLimit
    /\ it > Len(image_files)
    /\ futures = <<>>

\* C20: the processed counts on the progress channel never decrease, and the
\* count of each event is the number of jobs whose successful result had been
\* collected when it was emitted: the i-th event of a run carries i, and the
\* events are as many as the collected successes, so a job that failed or is
\* still queued or running is never counted.
C20_ProgressCountsCollected ==
    /\ \A i \in DOMAIN progress_queue :
          /\ progress_queue[i][1] = i
          /\ \A j \in DOMAIN progress_queue : i <= j => progress_queue[i][1] <= progress_queue[j][1]
    /\ Len(progress_queue) = Cardinality(CollectedOk)
    /\ processed_files = Cardinality(CollectedOk)

\* Two events or more have been emitted while one job has succeeded without
\* being collected yet and another is still queued or running.
C20_Witness ==
    /\ Len(progress_queue) >= 2
    /\ \E f \in Range(futures) : status[f] = "ok"
    /\ \E f \in Range(futures) : status[f] \notin {"ok", "fail"}

\* The RAW files of the input tree.
RawFilesOfTree == tree \cap RawIds

\* C23: without rawpy, once run() has started RAW processing is disabled for
\* the run: process_raw_enabled is false from before the scan on, no RAW file
\* is selected or dispatched or writes an output, skip_files stays 0,
\* total_files counts standard images only and no error_log entry names a RAW
\* file; and within one processor only the start of run() without rawpy
\* changes process_raw_enabled, while jpg_threads never changes.
C23_RawDisabledWithoutRawpy ==
    /\ [](~rawpy /\ pc # "start" =>
            /\ ~process_raw_enabled
            /\ raw_files = <<>>
            /\ skip_files = 0
            /\ Selected \subseteq ImageIds
            /\ pc \notin {"start", "scan"} => total_files = Len(image_files)
            /\ \A f \in RawFilesOfTree :
                    /\ status[f] = "none"
                    /\ ErrorEntries(f) = {}
                    /\ \A o \in outputs : o.by # f)
    /\ [][run_no' = run_no =>
            /\ jpg_threads' = jpg_threads
            /\ process_raw_enabled' # process_raw_enabled =>
                    pc = "start" /\ ~rawpy /\ ~process_raw_enabled']_vars

\* A run without rawpy has completed on a tree with an image and a RAW file
\* of another name; the processor was constructed with RAW processing on and
\* the image failed, leaving an entry in error_log.
C23_Witness ==
    /\ Completed
    /\ ~rawpy
    /\ process_raw
    /\ ~process_raw_enabled
    /\ \E f \in RawFilesOfTree : \A i \in DOMAIN file_groups : file_groups[i].raw = f => file_groups[i].image = NoFile
    /\ \E f \in tree \cap ImageIds : status[f] = "fail" /\ ErrorEntries(f) # {}

\* The files of the tree the scan groups: not system files, with a standard
\* or RAW extension.
Candidates == {f \in tree : ~IsSystemFile(Universe[f].name)} \cap (ImageIds \cup RawIds)

\* The files in the slots of the groups.
Grouped ==
    {file_groups[i].image : i \in DOMAIN file_groups}
        \cup {file_groups[i].raw : i \in DOMAIN file_groups}

\* C26: when the scan has gone through the tree, the image and the RAW of one
\* group map to the same output path, and a file whose output path no other
\* file of the tree maps to keeps its place in a group, and in the work lists
\* when it is a standard image.
C26_GroupSharesOutputSlot ==
    ScanComplete =>
        /\ \A i \in DOMAIN file_groups :
                HasBoth(file_groups[i]) =>
                    MappedOutput[file_groups[i].image] = MappedOutput[file_groups[i].raw]
        /\ \A f \in Candidates :
                (\A g \in Candidates \ {f} : MappedOutput[g] # MappedOutput[f]) =>
                    /\ f \in Grouped
                    /\ f \in ImageIds /\ pc = "scanned" => f \in Range(image_files)

\* C28: two distinct selected inputs map to distinct output paths, and the
\* output file of a job that succeeded is not written by another job of the
\* run.
C28_SelectedOutputsDistinct ==
    /\ \A f \in Selected : \A g \in Selected \ {f} : MappedOutput[f] # MappedOutput[g]
    /\ \A f \in Selected :
            status[f] = "ok" => \E o \in outputs : o.by = f /\ o.path = MappedOutput[f]

\* C27: after the resize step of process_image and of process_raw, the
\* longer side of the output is at most max_side and both dimensions are at
\* least 1.
C27_SizeWithinMaxSide ==
    /\ resize.done =>
            /\ Max(resize.size[1], resize.size[2]) <= resize.max_side
            /\ resize.size[1] >= 1
            /\ resize.size[2] >= 1
    /\ resize.raw_done =>
            /\ Max(resize.raw_size[1], resize.raw_size[2]) <= resize.max_side
            /\ resize.raw_size[1] >= 1
            /\ resize.raw_size[2] >= 1

\* C21: from construction on and through every adjustment,
\* current_jpg_workers lies between min_jpg_threads and max_jpg_threads; a
\* decrease does not go below the minimum and an increase does not go above
\* the maximum.
C21_WorkersWithinBounds ==
    /\ [](/\ min_jpg_threads <= adjuster.current_jpg_workers
          /\ adjuster.current_jpg_workers <= max_jpg_threads)
    /\ [][/\ adjuster.current_jpg_workers' < adjuster.current_jpg_workers =>
                adjuster.current_jpg_workers' >= min_jpg_threads
          /\ adjuster.current_jpg_workers' > adjuster.current_jpg_workers =>
                adjuster.current_jpg_workers' <= max_jpg_threads]_vars

\* The adjuster holds the default utilization of a failed sampling.
SampleFailed == adjuster.pc = "adjust" /\ adjuster.cpu_usage = DefaultCpuUsage

\* C24: after a failed sampling the utilization the adjuster decides on is
\* neither above the high threshold nor below the low one, and the step that
\* decides on it changes neither current_jpg_workers nor the pools.
C24_SamplingFailureNeutral ==
    /\ [](SampleFailed =>
            /\ adjuster.cpu_usage <= cpu_high_threshold
            /\ adjuster.cpu_usage >= cpu_low_threshold)
    /\ [][SampleFailed /\ adjuster'.pc # "adjust" =>
            /\ adjuster'.current_jpg_workers = adjuster.current_jpg_workers
            /\ adjuster'.pools = adjuster.pools]_vars

\* C25: every adjustment records a last_adjust_time at least
\* THREAD_ADJUST_MIN_INTERVAL after the one recorded before it, the first of
\* them being the time of construction.
C25_AdjustmentsSpaced ==
    [][(\/ adjuster'.last_adjust_time # adjuster.last_adjust_time
        \/ adjuster'.current_jpg_workers # adjuster.current_jpg_workers
        \/ adjuster'.pools # adjuster.pools)
            => (adjuster'.last_adjust_time - adjuster.last_adjust_time
                    >= THREAD_ADJUST_MIN_INTERVAL)]_vars

\* The adjuster has replaced the executor it was called with twice, the
\* second time at the earliest moment the interval allows.
C25_Witness ==
    /\ Len(adjuster.pools) = 3
    /\ adjuster.last_adjust_time = 2 * THREAD_ADJUST_MIN_INTERVAL

\* The pools the adjuster has replaced.
OldPools == 1 .. (Executor - 1)

\* C22: once the adjuster has replaced a pool, no job that has not started
\* is left with it and none starts on it; and the adjuster has not returned
\* while a job of any pool is unfinished.
C22_RebuildRunsEveryJobOnce ==
    /\ [](\A p \in OldPools : WorkQueue(p) = {})
    /\ [][\A j \in Jobs :
            adjuster.jobs[j].st = "pending" /\ adjuster'.jobs[j].st = "running"
                => adjuster.jobs[j].at = Executor]_vars
    /\ [](adjuster.pc = "returned" =>
            \A p \in 1 .. Executor : Unfinished(p) = {})

====
